---- MODULE Spec2Model ----
(***************************************************************************)
(* A model of the event monitor of flux-enhanced-cli:                      *)
(*   pkg/events/monitor.go   Monitor, Watch, checkEvents, WaitForReady,    *)
(*                           checkResourceReady, Stop                      *)
(*   main.go                 the root context the session is created under *)
(*                                                                         *)
(* Time is a discrete clock of one-second units.  A goroutine parked in a  *)
(* select statement with a ready case runs before the clock advances by a  *)
(* whole second, and a status or event query is short against that unit,   *)
(* so a handler of a select case is one atomic step.  When two cases of a  *)
(* select are ready, either may be taken (Go chooses at random).  A query  *)
(* made under a cancelled context fails.                                   *)
(*                                                                         *)
(*   Spec        the session with WaitForReady, Stop, signals and timeouts *)
(*   FairSpec    Spec with fair scheduling, for what must happen eventually*)
(*   SpecEvents  the Watch loop over an object whose events change freely  *)
(***************************************************************************)
EXTENDS Integers, Sequences, FiniteSets, TLC

\* ------------------------------------------------------------------ bounds
MaxTime == 6        \* the clock runs over 0..MaxTime
MaxTimeout == 4     \* timeouts handed to WaitForReady and to the root context
MaxEvents == 3      \* length of an event list a query returns (the code asks for <= 10)
MaxPolls == 3       \* Watch ticks in the session whose window of events flaps
MaxCallers == 2     \* goroutines calling checkEvents of one session at once
MaxStops == 2       \* Stop() is called at most MaxStops times
MaxConds == 2       \* length of status.conditions in a fetched document

\* ------------------------------------------------------- program constants
WatchPeriod == 3    \* time.NewTicker(3 * time.Second) in Watch
WaitPeriod == 2     \* time.NewTicker(2 * time.Second) in WaitForReady
HashWindow == 3     \* i >= len(events.Items)-3
ShownLimit == 2     \* shown < 2

VARIABLES
    now,            \* wall clock
    kind,           \* m.kind
    parentErr,      \* Err() of the context NewMonitor and WaitForReady are given
    parentDeadline, \* deadline of that context (context.WithTimeout)
    monErr,         \* m.ctx.Err(), the session's own context
    lastHash,       \* m.lastHash
    apiEvents,      \* how the object's events behave: "steady" | "changing" | "flapping"
    clockEnd,       \* the last second of the clock
    watchPc,        \* Watch: "select" | "done"
    watchTickAt,    \* Watch's ticker: time of its next tick
    watchTickC,     \* Watch's ticker: a tick is buffered in ticker.C
    waitPc,         \* WaitForReady: "idle" | "select" | "done"
    waitTickAt,     \* WaitForReady's ticker: time of its next tick
    waitTickC,      \* WaitForReady's ticker: a tick is buffered in ticker.C
    deadline,       \* WaitForReady: deadline
    gvr,            \* WaitForReady: gvr
    result,         \* WaitForReady: the error returned ("none" until it returns)
    \* history of what the program did, for stating properties
    fetches,        \* number of status fetches WaitForReady made
    lastFetch,      \* <<>> or <<r>>, r the result of the latest status fetch
    waitBranch,     \* the select case WaitForReady took last: "none" | "ctx" | "tick"
    lateWaitPolls,  \* status fetches started with the parent context cancelled
    lateWatchPolls, \* checkEvents calls started with the parent context cancelled
    stopMidWait,    \* Stop() was called with WaitForReady blocked in its select
    stopCalls,      \* the number of calls of Stop() so far
    mainPc,         \* where main is: "lib" (the session has another caller) |
                    \* "start" | "monitor" | "command" | "run" | "wait" | "exited"
    name,           \* the -name flag
    waitFlag,       \* the -wait flag
    timeoutFlag,    \* the -timeout flag, in seconds
    eventMonitor,   \* the variable eventMonitor of main: "nil" | "set"
    warnings,       \* the "Could not start event monitoring" warnings printed
    cmd,            \* the flux process: "none" | "running" | "exited" | "notrun"
    cmdArgs,        \* cmd.Args
    cmdCode,        \* ExitCode() of the exited process, -1 if a signal killed it
    exitCode,       \* the exit status of the program, -1 while it runs
    lastPoll,       \* result of the latest event query: "none" | "err" | "ok"
    lastOk,         \* <<>> or <<l>>, l the list of the latest successful event query
    samePoll,       \* the latest successful query repeated the content of the one before
    emitted,        \* the notifications of the latest checkEvents call
    seenHash,       \* the hash of the latest successful non-empty query, "" if none
    revertStage,    \* how many of Window's lists the successful non-empty queries
                    \* have returned, in order from the first one on; -1 once they
                    \* left that order
    revertEmitted,  \* how many of these queries emitted
    mu,             \* m.mu: 0 if unlocked, else the caller that holds it
    callPc,         \* where each caller of checkEvents is: "start" | "lock" |
                    \* "locked" | "unlockThen" | "unlockElse" | "show" | "done"
    callItems,      \* events.Items of each caller, <<>> before its query
    callHash,       \* the local `hash` of each caller
    callStored,     \* the caller wrote m.lastHash
    callShown       \* the notifications each caller printed

ctxVars == <<parentErr, parentDeadline, monErr>>
watchVars == <<watchPc, watchTickAt, watchTickC, lateWatchPolls>>
lockVars == <<mu, callPc, callItems, callHash, callStored, callShown>>
eventVars == <<lastHash, apiEvents, clockEnd, lastPoll, lastOk, samePoll, emitted,
               seenHash, revertStage, revertEmitted, lockVars>>
waitVars == <<waitPc, waitTickAt, waitTickC, deadline, gvr, result, fetches,
              lastFetch, waitBranch, lateWaitPolls>>
\* What the caller of the session keeps: StartWait and Stop are calls made by
\* the caller and leave these to it.
mainVars == <<mainPc, name, waitFlag, timeoutFlag, eventMonitor, warnings, cmd, cmdArgs,
              cmdCode, exitCode>>
callerVars == <<stopCalls, mainPc, name, waitFlag, timeoutFlag, eventMonitor, warnings,
                cmd, cmdArgs, cmdCode, exitCode>>

vars == <<now, kind, ctxVars, watchVars, eventVars, waitVars, stopMidWait,
          callerVars>>

\* --------------------------------------------------------------- contexts
NoError == "nil"
CtxErrors == {"Canceled", "DeadlineExceeded"}   \* context.Canceled, context.DeadlineExceeded

\* A deadline beyond the clock's range: the context does not time out.
Horizon == MaxTime + MaxPolls * WatchPeriod + 1

\* A context with no link to its parent: it outlives the parent's cancellation.
DetachedChild(child, err) == child

\* monitorCtx of context.WithCancel(ctx): cancelled with its parent, with the
\* parent's error, unless it is cancelled already.
CancelChild(child, err) == IF child = NoError THEN err ELSE child

\* ------------------------------------------------------------------ kinds
Kinds == {"kustomization", "helmrelease", "source", "gitrepository",
          "bucket", "Kustomization"}

NoGVR == [Group |-> "", Version |-> "", Resource |-> ""]

\* The switch without its default branch: an unknown kind keeps the zero gvr.
ResolveGVRNoDefault(k) ==
    CASE k = "kustomization" ->
            [supported |-> TRUE,
             gvr |-> [Group |-> "kustomize.toolkit.fluxcd.io", Version |-> "v1",
                      Resource |-> "kustomizations"]]
      [] k = "helmrelease" ->
            [supported |-> TRUE,
             gvr |-> [Group |-> "helm.toolkit.fluxcd.io", Version |-> "v2beta1",
                      Resource |-> "helmreleases"]]
      [] k \in {"source", "gitrepository"} ->
            [supported |-> TRUE,
             gvr |-> [Group |-> "source.toolkit.fluxcd.io", Version |-> "v1",
                      Resource |-> "gitrepositories"]]
      [] OTHER -> [supported |-> TRUE, gvr |-> NoGVR]

\* The switch on m.kind of WaitForReady: the gvr it sets, or the default branch.
ResolveGVR(k) ==
    CASE k = "kustomization" ->
            [supported |-> TRUE,
             gvr |-> [Group |-> "kustomize.toolkit.fluxcd.io", Version |-> "v1",
                      Resource |-> "kustomizations"]]
      [] k = "helmrelease" ->
            [supported |-> TRUE,
             gvr |-> [Group |-> "helm.toolkit.fluxcd.io", Version |-> "v2beta1",
                      Resource |-> "helmreleases"]]
      [] k \in {"source", "gitrepository"} ->
            [supported |-> TRUE,
             gvr |-> [Group |-> "source.toolkit.fluxcd.io", Version |-> "v1",
                      Resource |-> "gitrepositories"]]
      [] OTHER -> [supported |-> FALSE, gvr |-> NoGVR]

\* ------------------------------------------------------- status documents
\* One entry of status.conditions.  isMap = FALSE is an entry that is no map;
\* type and status are what NestedString yields ("" for a missing key).
CondEntries ==
    { [isMap |-> FALSE, type |-> "", status |-> ""],
      [isMap |-> TRUE, type |-> "Ready", status |-> "True"],
      [isMap |-> TRUE, type |-> "Ready", status |-> "False"],
      [isMap |-> TRUE, type |-> "Healthy", status |-> "True"] }

CondSeqs == UNION { [1..n -> CondEntries] : n \in 0..MaxConds }

\* The result of dynamicClient.Get: err, or a document.  statusKind and
\* condKind say whether the key is absent, holds the expected map / slice,
\* or holds a value of another type.
FetchError == [err |-> TRUE, statusKind |-> "absent", condKind |-> "absent",
               conditions |-> <<>>]

Documents ==
    { [err |-> FALSE, statusKind |-> s, condKind |-> "absent", conditions |-> <<>>] :
          s \in {"absent", "other", "map"} }
    \cup { [err |-> FALSE, statusKind |-> "map", condKind |-> "other",
            conditions |-> <<>>] }
    \cup { [err |-> FALSE, statusKind |-> "map", condKind |-> "slice",
            conditions |-> c] : c \in CondSeqs }

\* What a Get under context error e can return.
FetchResults(e) == IF e # NoError THEN {FetchError} ELSE {FetchError} \cup Documents

\* The loop leaving at the first entry that is no map, instead of skipping it.
RECURSIVE ScanStopsAtNonMap(_, _)
ScanStopsAtNonMap(conditions, i) ==
    IF i > Len(conditions) THEN FALSE
    ELSE IF ~conditions[i].isMap THEN FALSE
    ELSE IF conditions[i].type = "Ready" /\ conditions[i].status = "True" THEN TRUE
    ELSE ScanStopsAtNonMap(conditions, i + 1)

\* The loop over conditions of checkResourceReady, from index i on.
RECURSIVE ScanConditions(_, _)
ScanConditions(conditions, i) ==
    IF i > Len(conditions) THEN FALSE
    ELSE IF ~conditions[i].isMap THEN ScanConditions(conditions, i + 1)
    ELSE IF conditions[i].type = "Ready" /\ conditions[i].status = "True" THEN TRUE
    ELSE ScanConditions(conditions, i + 1)

\* checkResourceReady on the Get result r: the pair it returns.
checkResourceReady(r) ==
    IF r.err THEN [ready |-> FALSE, err |-> TRUE]
    ELSE IF r.statusKind # "map" THEN [ready |-> FALSE, err |-> r.statusKind = "other"]
    ELSE IF r.condKind # "slice" THEN [ready |-> FALSE, err |-> r.condKind = "other"]
    ELSE [ready |-> ScanConditions(r.conditions, 1), err |-> FALSE]

\* ------------------------------------------------------------------ events
EventTypeNormal == "Normal"
EventTypeWarning == "Warning"

\* A corev1.Event: Reason, Type, Message and, of its other fields, Count.
Event(r, t, m, c) == [reason |-> r, type |-> t, message |-> m, count |-> c]

EventPool ==
    { Event("Progressing", EventTypeNormal, "", 1),
      Event("Progressing", EventTypeNormal, "", 2),
      Event("Progressing", EventTypeNormal, "Progressing:Normal:", 1),
      Event("Progressing", EventTypeWarning, "", 1),
      Event("HealthCheckFailed", EventTypeNormal, "", 1),
      Event("DependencyNotReady", EventTypeNormal, "", 1) }

EventLists == UNION { [1..n -> EventPool] : n \in 0..MaxEvents }

\* The one list an object with a single, unchanging event returns.
SteadyLists == { <<Event("Progressing", EventTypeNormal, "Reconciling", 1)>> }

\* A window of events that changes from WindowA to WindowB and back.
WindowA == <<Event("Progressing", EventTypeNormal, "", 1)>>

WindowB == <<Event("Progressing", EventTypeNormal, "", 1),
             Event("HealthCheckFailed", EventTypeWarning, "", 1)>>

Window == <<WindowA, WindowB, WindowA>>

\* The lists an object returns whose events flap between the two windows.
FlapLists == {<<>>, WindowA, WindowB}

ListError == [err |-> TRUE, items |-> <<>>]

\* The (reason, severity, message) content of an event list.
Content(items) ==
    [i \in DOMAIN items |->
        <<items[i].reason, items[i].type, items[i].message>>]

\* What Events(...).List under context error e can return.
ListResults(e) ==
    IF e # NoError THEN {ListError}
    ELSE {ListError}
         \cup { [err |-> FALSE, items |-> l] :
                    l \in CASE apiEvents = "steady" -> SteadyLists
                              [] apiEvents = "flapping" -> FlapLists
                              [] OTHER -> EventLists }

\* fmt.Sprintf("%s:%s:%s", evt.Reason, evt.Type, evt.Message)
Sprintf(evt) == evt.reason \o ":" \o evt.type \o ":" \o evt.message

\* The hash loop of checkEvents, at (1-based) index i with the hash so far.
RECURSIVE HashLoop(_, _, _)
HashLoop(items, i, hash) ==
    IF i >= 1 /\ i >= Len(items) - HashWindow + 1
    THEN HashLoop(items, i - 1, hash \o Sprintf(items[i]))
    ELSE hash

\* isWarning from the severity alone.
IsWarningByType(evt) == evt.type = EventTypeWarning

\* isWarning of checkEvents.
IsWarning(evt) ==
    \/ evt.type = EventTypeWarning
    \/ evt.reason = "HealthCheckFailed"
    \/ evt.reason = "DependencyNotReady"

\* The output loop walking the list from its first event on.
RECURSIVE ShowLoopOldestFirst(_, _, _)
ShowLoopOldestFirst(items, i, shown) ==
    IF i >= 1 /\ shown < ShownLimit
    THEN <<[reason |-> items[shown + 1].reason, message |-> items[shown + 1].message,
            isWarning |-> IsWarning(items[shown + 1])]>>
         \o ShowLoopOldestFirst(items, i - 1, shown + 1)
    ELSE <<>>

\* The output loop of checkEvents, at index i with `shown` events printed.
RECURSIVE ShowLoop(_, _, _)
ShowLoop(items, i, shown) ==
    IF i >= 1 /\ shown < ShownLimit
    THEN <<[reason |-> items[i].reason, message |-> items[i].message,
            isWarning |-> IsWarning(items[i])]>>
         \o ShowLoop(items, i - 1, shown + 1)
    ELSE <<>>

\* checkEvents forgetting to store the new hash.
checkEventsNoStore(r) ==
    /\ lastPoll' = IF r.err THEN "err" ELSE "ok"
    /\ lastOk' = IF r.err THEN lastOk ELSE <<r.items>>
    /\ samePoll' = (~r.err /\ lastOk # <<>> /\ Content(lastOk[1]) = Content(r.items))
    /\ UNCHANGED lastHash
    /\ IF r.err \/ Len(r.items) = 0
       THEN emitted' = <<>>
       ELSE LET hash == HashLoop(r.items, Len(r.items), "")
            IN  IF hash # lastHash
                THEN emitted' = ShowLoop(r.items, Len(r.items), 0)
                ELSE emitted' = <<>>

\* checkEvents hashing before it looks at the error and at the length, so that
\* a failed or empty query stores the empty hash.
checkEventsHashFirst(r) ==
    /\ lastPoll' = IF r.err THEN "err" ELSE "ok"
    /\ lastOk' = IF r.err THEN lastOk ELSE <<r.items>>
    /\ samePoll' = (~r.err /\ lastOk # <<>> /\ Content(lastOk[1]) = Content(r.items))
    /\ LET hash == HashLoop(r.items, Len(r.items), "")
       IN  IF hash # lastHash
           THEN /\ lastHash' = hash
                /\ emitted' = ShowLoop(r.items, Len(r.items), 0)
           ELSE /\ emitted' = <<>>
                /\ UNCHANGED lastHash

\* checkEvents storing a hash only as long as none is stored.
checkEventsStoreFirst(r) ==
    /\ lastPoll' = IF r.err THEN "err" ELSE "ok"
    /\ lastOk' = IF r.err THEN lastOk ELSE <<r.items>>
    /\ samePoll' = (~r.err /\ lastOk # <<>> /\ Content(lastOk[1]) = Content(r.items))
    /\ IF r.err \/ Len(r.items) = 0
       THEN /\ emitted' = <<>>
            /\ UNCHANGED lastHash
       ELSE LET hash == HashLoop(r.items, Len(r.items), "")
            IN  IF hash # lastHash
                THEN /\ lastHash' = IF lastHash = "" THEN hash ELSE lastHash
                     /\ emitted' = ShowLoop(r.items, Len(r.items), 0)
                ELSE /\ emitted' = <<>>
                     /\ UNCHANGED lastHash

\* checkEvents with r the result of the event query.
checkEvents(r) ==
    /\ lastPoll' = IF r.err THEN "err" ELSE "ok"
    /\ lastOk' = IF r.err THEN lastOk ELSE <<r.items>>
    /\ samePoll' = (~r.err /\ lastOk # <<>> /\ Content(lastOk[1]) = Content(r.items))
    /\ IF r.err \/ Len(r.items) = 0
       THEN /\ emitted' = <<>>
            /\ UNCHANGED lastHash
       ELSE LET hash == HashLoop(r.items, Len(r.items), "")
            IN  IF hash # lastHash
                THEN /\ lastHash' = hash
                     /\ emitted' = ShowLoop(r.items, Len(r.items), 0)
                ELSE /\ emitted' = <<>>
                     /\ UNCHANGED lastHash

\* ------------------------------------------- checkEvents, statement by statement
Callers == 1..MaxCallers

\* Everything but the lock, the stored hash and the callers' locals.
notLockVars == <<now, kind, ctxVars, watchVars, apiEvents, clockEnd, lastPoll, lastOk,
                 samePoll, emitted, seenHash, revertStage, revertEmitted, waitVars,
                 stopMidWait, callerVars>>

\* events, err := ...List(m.ctx, ...) with the two early returns, and the hash
\* loop over the caller's own list.
CallList(c) ==
    /\ callPc[c] = "start"
    /\ \E r \in ListResults(monErr) :
        IF r.err \/ Len(r.items) = 0
        THEN /\ callPc' = [callPc EXCEPT ![c] = "done"]
             /\ UNCHANGED <<callItems, callHash>>
        ELSE /\ callItems' = [callItems EXCEPT ![c] = r.items]
             /\ callHash' = [callHash EXCEPT ![c] = HashLoop(r.items, Len(r.items), "")]
             /\ callPc' = [callPc EXCEPT ![c] = "lock"]
    /\ UNCHANGED <<mu, lastHash, callStored, callShown, notLockVars>>

\* m.mu.Lock()
CallLock(c) ==
    /\ callPc[c] = "lock"
    /\ mu = 0
    /\ mu' = c
    /\ callPc' = [callPc EXCEPT ![c] = "locked"]
    /\ UNCHANGED <<lastHash, callItems, callHash, callStored, callShown, notLockVars>>

\* if hash != m.lastHash { m.lastHash = hash
CallCompare(c) ==
    /\ callPc[c] = "locked"
    /\ IF callHash[c] # lastHash
       THEN /\ lastHash' = callHash[c]
            /\ callStored' = [callStored EXCEPT ![c] = TRUE]
            /\ callPc' = [callPc EXCEPT ![c] = "unlockThen"]
       ELSE /\ callPc' = [callPc EXCEPT ![c] = "unlockElse"]
            /\ UNCHANGED <<lastHash, callStored>>
    /\ UNCHANGED <<mu, callItems, callHash, callShown, notLockVars>>

\* The m.mu.Unlock() of the first branch only.
CallUnlockThenOnly(c) ==
    /\ callPc[c] \in {"unlockThen", "unlockElse"}
    /\ mu' = IF callPc[c] = "unlockThen" THEN 0 ELSE mu
    /\ callPc' = [callPc EXCEPT ![c] = IF callPc[c] = "unlockThen" THEN "show" ELSE "done"]
    /\ UNCHANGED <<lastHash, callItems, callHash, callStored, callShown, notLockVars>>

\* m.mu.Unlock(), of either branch
CallUnlock(c) ==
    /\ callPc[c] \in {"unlockThen", "unlockElse"}
    /\ mu' = 0
    /\ callPc' = [callPc EXCEPT ![c] = IF callPc[c] = "unlockThen" THEN "show" ELSE "done"]
    /\ UNCHANGED <<lastHash, callItems, callHash, callStored, callShown, notLockVars>>

\* The output loop.
CallShow(c) ==
    /\ callPc[c] = "show"
    /\ callShown' = [callShown EXCEPT
                        ![c] = ShowLoop(callItems[c], Len(callItems[c]), 0)]
    /\ callPc' = [callPc EXCEPT ![c] = "done"]
    /\ UNCHANGED <<mu, lastHash, callItems, callHash, callStored, notLockVars>>

\* ----------------------------------------------------------- initial state
\* The state after NewMonitor succeeded under a fresh parent context and
\* `go eventMonitor.Watch()` created its ticker.
InitSession ==
    /\ now = 0
    /\ kind \in Kinds
    /\ parentErr = NoError
    /\ monErr = NoError
    /\ lastHash = ""
    /\ watchPc = "select"
    /\ watchTickAt = WatchPeriod
    /\ watchTickC = FALSE
    /\ waitPc = "idle"
    /\ waitTickAt = 0
    /\ waitTickC = FALSE
    /\ deadline = 0
    /\ gvr = NoGVR
    /\ result = "none"
    /\ fetches = 0
    /\ lastFetch = <<>>
    /\ waitBranch = "none"
    /\ lateWaitPolls = 0
    /\ lateWatchPolls = 0
    /\ stopMidWait = FALSE
    /\ stopCalls = 0
    /\ mainPc = "lib"
    /\ name = "app"
    /\ waitFlag = TRUE
    /\ timeoutFlag = 0
    /\ eventMonitor = "set"
    /\ warnings = 0
    /\ cmd = "none"
    /\ cmdArgs = <<>>
    /\ cmdCode = 0
    /\ exitCode = -1
    /\ lastPoll = "none"
    /\ lastOk = <<>>
    /\ samePoll = FALSE
    /\ emitted = <<>>
    /\ seenHash = ""
    /\ revertStage = 0
    /\ revertEmitted = 0
    /\ mu = 0
    /\ callPc = [c \in Callers |-> "start"]
    /\ callItems = [c \in Callers |-> <<>>]
    /\ callHash = [c \in Callers |-> ""]
    /\ callStored = [c \in Callers |-> FALSE]
    /\ callShown = [c \in Callers |-> <<>>]

Init ==
    /\ InitSession
    /\ parentDeadline \in {MaxTimeout, Horizon}
    /\ apiEvents = "steady"
    /\ clockEnd = MaxTime

\* The hash of a list of events as checkEvents means it: the "%s:%s:%s" of its
\* last (up to) three events, the newest first.
HashOf(items) ==
    LET n == Len(items)
    IN  CASE n = 0 -> ""
          [] n = 1 -> Sprintf(items[1])
          [] n = 2 -> Sprintf(items[2]) \o Sprintf(items[1])
          [] OTHER -> Sprintf(items[n]) \o Sprintf(items[n - 1]) \o Sprintf(items[n - 2])

\* What an observer of the event query's results and of the output records.
Observed(r) ==
    LET good == ~r.err /\ Len(r.items) >= 1
        next == revertStage >= 0 /\ revertStage < Len(Window)
                    /\ r.items = Window[revertStage + 1]
    IN  /\ seenHash' = IF good THEN HashOf(r.items) ELSE seenHash
        /\ revertStage' = IF ~good THEN revertStage
                          ELSE IF next THEN revertStage + 1 ELSE -1
        /\ revertEmitted' = IF ~good THEN revertEmitted
                            ELSE IF ~next THEN 0
                            ELSE IF emitted' # <<>> THEN revertEmitted + 1
                            ELSE revertEmitted

\* ------------------------------------------------------------------ Watch
\* case <-m.ctx.Done(): return
WatchCancelled ==
    /\ watchPc = "select"
    /\ monErr # NoError
    /\ watchPc' = "done"
    /\ UNCHANGED <<now, kind, ctxVars, watchTickAt, watchTickC, lateWatchPolls,
                   eventVars, waitVars, stopMidWait, callerVars>>

\* case <-ticker.C: m.checkEvents()
WatchTick ==
    /\ watchPc = "select"
    /\ watchTickC
    /\ watchTickC' = FALSE
    /\ lateWatchPolls' = IF parentErr # NoError THEN lateWatchPolls + 1 ELSE lateWatchPolls
    /\ \E r \in ListResults(monErr) : checkEvents(r) /\ Observed(r)
    /\ UNCHANGED <<now, kind, ctxVars, watchPc, watchTickAt, apiEvents, clockEnd,
                   lockVars, waitVars,
                   stopMidWait, callerVars>>

\* ----------------------------------------------------------- WaitForReady
\* The deadline test one second early.
NotBefore(t, d) == t >= d

\* time.Now().After(deadline)
After(t, d) == t > d

\* WaitForReady(ctx, timeout) up to its first select; ctx is the parent context.
StartWait(timeout) ==
    /\ waitPc = "idle"
    /\ now + timeout + WaitPeriod <= MaxTime
    /\ deadline' = now + timeout
    /\ IF ResolveGVR(kind).supported
       THEN /\ gvr' = ResolveGVR(kind).gvr
            /\ waitPc' = "select"
            /\ waitTickAt' = now + WaitPeriod
            /\ result' = "none"
       ELSE /\ gvr' = NoGVR
            /\ waitPc' = "done"
            /\ waitTickAt' = waitTickAt
            /\ result' = "UnsupportedKind"
    /\ UNCHANGED <<now, kind, ctxVars, watchVars, eventVars, waitTickC, fetches,
                   lastFetch, waitBranch, lateWaitPolls, stopMidWait>>

\* The cancellation case reporting a timeout once the deadline has passed.
WaitCancelledAsTimeout ==
    /\ waitPc = "select"
    /\ parentErr # NoError
    /\ waitBranch' = "ctx"
    /\ result' = IF After(now, deadline) THEN "Timeout" ELSE parentErr
    /\ waitPc' = "done"
    /\ UNCHANGED <<now, kind, ctxVars, watchVars, eventVars, waitTickAt, waitTickC,
                   deadline, gvr, fetches, lastFetch, lateWaitPolls, stopMidWait, callerVars>>

\* case <-ctx.Done(): return ctx.Err()
WaitCancelled ==
    /\ waitPc = "select"
    /\ parentErr # NoError
    /\ waitBranch' = "ctx"
    /\ result' = parentErr
    /\ waitPc' = "done"
    /\ UNCHANGED <<now, kind, ctxVars, watchVars, eventVars, waitTickAt, waitTickC,
                   deadline, gvr, fetches, lastFetch, lateWaitPolls, stopMidWait, callerVars>>

\* The tick case returning the error of checkResourceReady instead of
\* continuing.
WaitTickSurfacesError ==
    /\ waitPc = "select"
    /\ waitTickC
    /\ waitBranch' = "tick"
    /\ IF After(now, deadline)
       THEN /\ result' = "Timeout"
            /\ waitPc' = "done"
            /\ waitTickC' = FALSE
            /\ UNCHANGED <<fetches, lastFetch, lateWaitPolls>>
       ELSE \E r \in FetchResults(monErr) :
            LET got == checkResourceReady(r)
            IN  /\ fetches' = fetches + 1
                /\ lastFetch' = <<r>>
                /\ lateWaitPolls' = IF parentErr # NoError THEN lateWaitPolls + 1
                                    ELSE lateWaitPolls
                /\ waitTickC' = FALSE
                /\ IF got.err
                   THEN /\ result' = "AccessError"
                        /\ waitPc' = "done"
                   ELSE IF got.ready
                   THEN /\ result' = "nil"
                        /\ waitPc' = "done"
                   ELSE UNCHANGED <<result, waitPc>>
    /\ UNCHANGED <<now, kind, ctxVars, watchVars, eventVars, waitTickAt, deadline,
                   gvr, stopMidWait, callerVars>>

\* The tick case calling m.cancel() before it returns the timeout error.
WaitTickTimeoutCancels ==
    /\ waitPc = "select"
    /\ waitTickC
    /\ waitBranch' = "tick"
    /\ IF After(now, deadline)
       THEN /\ result' = "Timeout"
            /\ waitPc' = "done"
            /\ waitTickC' = FALSE
            /\ monErr' = IF monErr = NoError THEN "Canceled" ELSE monErr
            /\ UNCHANGED <<fetches, lastFetch, lateWaitPolls>>
       ELSE \E r \in FetchResults(monErr) :
            LET got == checkResourceReady(r)
            IN  /\ fetches' = fetches + 1
                /\ lastFetch' = <<r>>
                /\ lateWaitPolls' = IF parentErr # NoError THEN lateWaitPolls + 1
                                    ELSE lateWaitPolls
                /\ waitTickC' = FALSE
                /\ monErr' = monErr
                /\ IF ~got.err /\ got.ready
                   THEN /\ result' = "nil"
                        /\ waitPc' = "done"
                   ELSE UNCHANGED <<result, waitPc>>
    /\ UNCHANGED <<now, kind, parentErr, parentDeadline, watchVars, eventVars,
                   waitTickAt, deadline, gvr, stopMidWait, callerVars>>

\* The tick case fetching the resource before it looks at the deadline.
WaitTickFetchFirst ==
    /\ waitPc = "select"
    /\ waitTickC
    /\ waitBranch' = "tick"
    /\ \E r \in FetchResults(monErr) :
        LET got == checkResourceReady(r)
        IN  /\ fetches' = fetches + 1
            /\ lastFetch' = <<r>>
            /\ lateWaitPolls' = IF parentErr # NoError THEN lateWaitPolls + 1
                                ELSE lateWaitPolls
            /\ waitTickC' = FALSE
            /\ IF ~got.err /\ got.ready
               THEN /\ result' = "nil"
                    /\ waitPc' = "done"
               ELSE IF After(now, deadline)
               THEN /\ result' = "Timeout"
                    /\ waitPc' = "done"
               ELSE UNCHANGED <<result, waitPc>>
    /\ UNCHANGED <<now, kind, ctxVars, watchVars, eventVars, waitTickAt, deadline,
                   gvr, stopMidWait, callerVars>>

\* case <-ticker.C: the deadline check, then checkResourceReady(gvr)
WaitTick ==
    /\ waitPc = "select"
    /\ waitTickC
    /\ waitBranch' = "tick"
    /\ IF After(now, deadline)
       THEN /\ result' = "Timeout"
            /\ waitPc' = "done"
            /\ waitTickC' = FALSE
            /\ UNCHANGED <<fetches, lastFetch, lateWaitPolls>>
       ELSE \E r \in FetchResults(monErr) :
            LET got == checkResourceReady(r)
            IN  /\ fetches' = fetches + 1
                /\ lastFetch' = <<r>>
                /\ lateWaitPolls' = IF parentErr # NoError THEN lateWaitPolls + 1
                                    ELSE lateWaitPolls
                /\ waitTickC' = FALSE
                /\ IF ~got.err /\ got.ready
                   THEN /\ result' = "nil"
                        /\ waitPc' = "done"
                   ELSE UNCHANGED <<result, waitPc>>
    /\ UNCHANGED <<now, kind, ctxVars, watchVars, eventVars, waitTickAt, deadline,
                   gvr, stopMidWait, callerVars>>

\* ------------------------------------------------------------------- Stop
\* A Stop that can be called on a live scope only, as a close of a channel.
StopOnce ==
    /\ monErr = NoError
    /\ monErr' = "Canceled"
    /\ stopMidWait' = (stopMidWait
                          \/ (waitPc = "select" /\ ~waitTickC /\ parentErr = NoError))
    /\ UNCHANGED <<now, kind, parentErr, parentDeadline, watchVars, eventVars, waitVars>>

\* m.cancel()
Stop ==
    /\ monErr' = IF monErr = NoError THEN "Canceled" ELSE monErr
    /\ stopMidWait' = (stopMidWait
                          \/ (waitPc = "select" /\ ~waitTickC /\ parentErr = NoError))
    /\ UNCHANGED <<now, kind, parentErr, parentDeadline, watchVars, eventVars, waitVars>>


\* ------------------------------------------------------------------- main
\* The kinds main creates a Monitor for.
MonitoredKinds == {"kustomization", "helmrelease", "source"}

\* The deadline of context.WithTimeout(context.Background(), *timeout) made at t.
RootWithoutDeadline(t, timeout) == Horizon

RootDeadline(t, timeout) == t + timeout

\* cmd.Args as main builds them.
FluxArgs(k, n) ==
    IF k = "source"
    THEN <<"flux", "reconcile", "source", "git", n, "-n", "flux-system">>
    ELSE <<"flux", "reconcile", k, n, "-n", "flux-system">>
         \o (IF k \in {"kustomization", "helmrelease"} THEN <<"--with-source">> ELSE <<>>)

\* The status a process ends with after os.Exit(code).
ExitStatus(code) == code % 256

\* What main and the flux process leave alone.
sessionVars == <<now, kind, ctxVars, watchVars, eventVars, waitVars, stopMidWait>>

\* flag.Parse(), the check of -kind and -name, the root context and the
\* signal handler.
MainStart ==
    /\ mainPc = "start"
    /\ IF kind = "" \/ name = ""
       THEN /\ mainPc' = "exited"
            /\ exitCode' = ExitStatus(1)
            /\ UNCHANGED parentDeadline
       ELSE /\ mainPc' = "monitor"
            /\ parentDeadline' = RootDeadline(now, timeoutFlag)
            /\ UNCHANGED exitCode
    /\ UNCHANGED <<now, kind, parentErr, monErr, watchVars, eventVars, waitVars,
                   stopMidWait, stopCalls, name, waitFlag, timeoutFlag, eventMonitor,
                   warnings, cmd, cmdArgs, cmdCode>>

\* The start of monitoring ending the program when NewMonitor fails.
MainMonitorAbortsOnFailure ==
    /\ mainPc = "monitor"
    /\ IF kind \in MonitoredKinds
       THEN \E ok \in BOOLEAN :
            IF ok
            THEN /\ eventMonitor' = "set"
                 /\ monErr' = parentErr
                 /\ watchPc' = "select"
                 /\ watchTickAt' = now + WatchPeriod
                 /\ mainPc' = "command"
                 /\ UNCHANGED <<warnings, exitCode>>
            ELSE /\ warnings' = warnings + 1
                 /\ mainPc' = "exited"
                 /\ exitCode' = ExitStatus(1)
                 /\ UNCHANGED <<eventMonitor, monErr, watchPc, watchTickAt>>
       ELSE /\ mainPc' = "command"
            /\ UNCHANGED <<eventMonitor, monErr, watchPc, watchTickAt, warnings, exitCode>>
    /\ UNCHANGED <<now, kind, parentErr, parentDeadline, watchTickC, lateWatchPolls,
                   eventVars, waitVars, stopMidWait, stopCalls, name, waitFlag,
                   timeoutFlag, cmd, cmdArgs, cmdCode>>

\* The start of monitoring: NewMonitor for a monitored kind and, if it
\* succeeds, defer eventMonitor.Stop() and go eventMonitor.Watch(); the warning
\* if it fails.
MainMonitor ==
    /\ mainPc = "monitor"
    /\ IF kind \in MonitoredKinds
       THEN \E ok \in BOOLEAN :
            IF ok
            THEN /\ eventMonitor' = "set"
                 /\ monErr' = parentErr
                 /\ watchPc' = "select"
                 /\ watchTickAt' = now + WatchPeriod
                 /\ UNCHANGED warnings
            ELSE /\ warnings' = warnings + 1
                 /\ UNCHANGED <<eventMonitor, monErr, watchPc, watchTickAt>>
       ELSE UNCHANGED <<eventMonitor, monErr, watchPc, watchTickAt, warnings>>
    /\ mainPc' = "command"
    /\ UNCHANGED <<now, kind, parentErr, parentDeadline, watchTickC, lateWatchPolls,
                   eventVars, waitVars, stopMidWait, stopCalls, name, waitFlag,
                   timeoutFlag, cmd, cmdArgs, cmdCode, exitCode>>

\* exec.CommandContext(ctx, ...) and the start of cmd.Run(): the process
\* starts, or it cannot be run; under a cancelled context it is not started.
MainRun ==
    /\ mainPc = "command"
    /\ cmdArgs' = FluxArgs(kind, name)
    /\ cmd' \in IF parentErr # NoError THEN {"notrun"} ELSE {"running", "notrun"}
    /\ mainPc' = "run"
    /\ UNCHANGED <<sessionVars, stopCalls, name, waitFlag, timeoutFlag, eventMonitor,
                   warnings, cmdCode, exitCode>>

\* The flux process ends: by itself with an exit code, or killed by a signal,
\* which is what the cancelled context of CommandContext does to it.
CmdExit ==
    /\ cmd = "running"
    /\ cmd' = "exited"
    /\ cmdCode' \in {0, 1, 2, -1}
    /\ UNCHANGED <<sessionVars, stopCalls, mainPc, name, waitFlag, timeoutFlag,
                   eventMonitor, warnings, cmdArgs, exitCode>>

\* The process has ended and cmd.Run() returned an error.
RunFailed == cmd = "notrun" \/ (cmd = "exited" /\ cmdCode # 0)

\* The process has ended and cmd.Run() returned nil.
RunSucceeded == cmd = "exited" /\ cmdCode = 0

\* cmd.Run() returned an error: os.Exit with the exit code of the process, or
\* with 1 if it could not be run.  Deferred calls are not run.
MainCmdFailed ==
    /\ mainPc = "run"
    /\ RunFailed
    /\ mainPc' = "exited"
    /\ exitCode' = IF cmd = "notrun" THEN ExitStatus(1) ELSE ExitStatus(cmdCode)
    /\ UNCHANGED <<sessionVars, stopCalls, name, waitFlag, timeoutFlag, eventMonitor,
                   warnings, cmd, cmdArgs, cmdCode>>

\* The call of WaitForReady made whatever cmd.Run() returned.
MainWaitEvenAfterError ==
    /\ mainPc = "run"
    /\ cmd \in {"exited", "notrun"}
    /\ waitFlag /\ eventMonitor # "nil"
    /\ StartWait(timeoutFlag)
    /\ mainPc' = "wait"
    /\ UNCHANGED <<stopCalls, name, waitFlag, timeoutFlag, eventMonitor, warnings, cmd,
                   cmdArgs, cmdCode, exitCode>>

\* cmd.Run() returned nil, -wait is set and there is a Monitor:
\* eventMonitor.WaitForReady(ctx, *timeout)
MainWait ==
    /\ mainPc = "run"
    /\ RunSucceeded
    /\ waitFlag /\ eventMonitor # "nil"
    /\ StartWait(timeoutFlag)
    /\ mainPc' = "wait"
    /\ UNCHANGED <<stopCalls, name, waitFlag, timeoutFlag, eventMonitor, warnings, cmd,
                   cmdArgs, cmdCode, exitCode>>

\* main returns: the deferred eventMonitor.Stop(), if there is a Monitor, and
\* the deferred cancel() run, and the program ends with status 0.
ReturnFromMain ==
    /\ mainPc' = "exited"
    /\ exitCode' = ExitStatus(0)
    /\ monErr' = CancelChild(monErr, "Canceled")
    /\ parentErr' = CancelChild(parentErr, "Canceled")
    /\ UNCHANGED <<now, kind, parentDeadline, watchVars, eventVars, waitVars,
                   stopMidWait, stopCalls, name, waitFlag, timeoutFlag, eventMonitor,
                   warnings, cmd, cmdArgs, cmdCode>>

\* cmd.Run() returned nil and there is nothing to wait for.
MainNoWait ==
    /\ mainPc = "run"
    /\ RunSucceeded
    /\ ~(waitFlag /\ eventMonitor # "nil")
    /\ ReturnFromMain

\* WaitForReady returned: os.Exit(1) on an error, else PrintSuccess and return.
MainWaitDone ==
    /\ mainPc = "wait"
    /\ waitPc = "done"
    /\ IF result = "nil"
       THEN ReturnFromMain
       ELSE /\ mainPc' = "exited"
            /\ exitCode' = ExitStatus(1)
            /\ UNCHANGED <<sessionVars, stopCalls, name, waitFlag, timeoutFlag,
                           eventMonitor, warnings, cmd, cmdArgs, cmdCode>>

\* ------------------------------------------------------------ environment
\* A signal arrives: the goroutine of main calls cancel() of the root context.
Interrupt ==
    /\ parentErr = NoError
    /\ parentErr' = "Canceled"
    /\ monErr' = CancelChild(monErr, "Canceled")
    /\ UNCHANGED <<now, kind, parentDeadline, watchVars, eventVars, waitVars,
                   stopMidWait, callerVars>>

\* Some goroutine is parked in a select with a ready case.
SelectReady ==
    \/ watchPc = "select" /\ (monErr # NoError \/ watchTickC)
    \/ waitPc = "select" /\ (parentErr # NoError \/ waitTickC)

\* One second passes: the root context's timer and the tickers fire.
AdvanceClock ==
    /\ now < clockEnd
    /\ ~SelectReady
    /\ now' = now + 1
    /\ IF parentErr = NoError /\ now' >= parentDeadline
       THEN /\ parentErr' = "DeadlineExceeded"
            /\ monErr' = CancelChild(monErr, "DeadlineExceeded")
       ELSE UNCHANGED <<parentErr, monErr>>
    /\ IF watchPc = "select" /\ now' = watchTickAt
       THEN /\ watchTickC' = TRUE
            /\ watchTickAt' = watchTickAt + WatchPeriod
       ELSE UNCHANGED <<watchTickC, watchTickAt>>
    /\ IF waitPc = "select" /\ now' = waitTickAt
       THEN /\ waitTickC' = TRUE
            /\ waitTickAt' = waitTickAt + WaitPeriod
       ELSE UNCHANGED <<waitTickC, waitTickAt>>
    /\ UNCHANGED <<kind, parentDeadline, watchPc, lateWatchPolls, eventVars, waitPc,
                   deadline, gvr, result, fetches, lastFetch, waitBranch,
                   lateWaitPolls, stopMidWait, callerVars>>

\* --------------------------------------------------------- specifications
Next ==
    \/ WatchCancelled
    \/ WatchTick
    \/ \E timeout \in 1..MaxTimeout : StartWait(timeout) /\ UNCHANGED callerVars
    \/ WaitCancelled
    \/ WaitTick
    \/ Stop /\ UNCHANGED callerVars
    \/ Interrupt
    \/ AdvanceClock

Spec == Init /\ [][Next]_vars

\* Every goroutine parked in a select with a ready case is scheduled, and time
\* passes.
Fairness ==
    /\ WF_vars(WatchCancelled)
    /\ WF_vars(WatchTick)
    /\ WF_vars(WaitCancelled)
    /\ WF_vars(WaitTick)
    /\ WF_vars(AdvanceClock)

\* The supported kinds behave alike once gvr is set: the fair specification
\* takes one of them, and one that is not supported.
InitFair == Init /\ kind \in {"kustomization", "bucket"}

FairSpec == InitFair /\ [][Next]_vars /\ Fairness

\* The session with an object whose events change freely; WaitForReady is
\* not called.
InitEvents ==
    /\ InitSession
    /\ kind = "kustomization"
    /\ parentDeadline = Horizon
    /\ apiEvents = "changing"
    /\ clockEnd = MaxTime

NextEvents ==
    \/ WatchCancelled
    \/ WatchTick
    \/ Stop /\ UNCHANGED callerVars
    \/ Interrupt
    \/ AdvanceClock

SpecEvents == InitEvents /\ [][NextEvents]_vars

\* The session with an object whose events flap between two windows, for
\* MaxPolls ticks of Watch.
InitFlap ==
    /\ InitSession
    /\ kind = "kustomization"
    /\ parentDeadline = Horizon
    /\ apiEvents = "flapping"
    /\ clockEnd = MaxPolls * WatchPeriod

SpecFlap == InitFlap /\ [][NextEvents]_vars

\* A fresh session on which MaxCallers goroutines call checkEvents at once.
InitLock == InitFlap

NextLock ==
    \E c \in Callers :
        \/ CallList(c)
        \/ CallLock(c)
        \/ CallCompare(c)
        \/ CallUnlock(c)
        \/ CallShow(c)

SpecLock == InitLock /\ [][NextLock]_vars

\* The whole program.  Before main starts there is no context and no Monitor.
InitMain ==
    /\ now = 0
    /\ kind \in Kinds \cup {""}
    /\ name \in {"", "app"}
    /\ waitFlag \in BOOLEAN
    /\ timeoutFlag \in 1..MaxTimeout
    /\ mainPc = "start"
    /\ eventMonitor = "nil"
    /\ warnings = 0
    /\ cmd = "none"
    /\ cmdArgs = <<>>
    /\ cmdCode = 0
    /\ exitCode = -1
    /\ parentErr = NoError
    /\ parentDeadline = Horizon
    /\ monErr = NoError
    /\ lastHash = ""
    /\ apiEvents = "steady"
    /\ clockEnd = MaxTime
    /\ watchPc = "idle"
    /\ watchTickAt = 0
    /\ watchTickC = FALSE
    /\ waitPc = "idle"
    /\ waitTickAt = 0
    /\ waitTickC = FALSE
    /\ deadline = 0
    /\ gvr = NoGVR
    /\ result = "none"
    /\ fetches = 0
    /\ lastFetch = <<>>
    /\ waitBranch = "none"
    /\ lateWaitPolls = 0
    /\ lateWatchPolls = 0
    /\ stopMidWait = FALSE
    /\ stopCalls = 0
    /\ lastPoll = "none"
    /\ lastOk = <<>>
    /\ samePoll = FALSE
    /\ emitted = <<>>
    /\ seenHash = ""
    /\ revertStage = 0
    /\ revertEmitted = 0
    /\ mu = 0
    /\ callPc = [c \in Callers |-> "start"]
    /\ callItems = [c \in Callers |-> <<>>]
    /\ callHash = [c \in Callers |-> ""]
    /\ callStored = [c \in Callers |-> FALSE]
    /\ callShown = [c \in Callers |-> <<>>]

\* The goroutines of the program run until it exits.
Running == mainPc # "exited"

\* The statements of main take no time: time passes while the flux process
\* runs, unless its context is cancelled, which kills it at once, and while
\* main is in WaitForReady.
TimePasses ==
    \/ mainPc = "run" /\ cmd = "running" /\ parentErr = NoError
    \/ mainPc = "wait"

NextMain ==
    \/ MainStart
    \/ MainMonitor
    \/ MainRun
    \/ CmdExit
    \/ MainCmdFailed
    \/ MainWait
    \/ MainNoWait
    \/ MainWaitDone
    \/ Running /\ WatchCancelled
    \/ Running /\ WatchTick
    \/ Running /\ WaitCancelled
    \/ Running /\ WaitTick
    \/ Running /\ mainPc # "start" /\ Interrupt
    \/ Running /\ TimePasses /\ AdvanceClock

SpecMain == InitMain /\ [][NextMain]_vars

\* The session of one supported kind, with the calls of Stop() counted.
InitStop == Init /\ kind = "kustomization"

CountedStop ==
    /\ stopCalls < MaxStops
    /\ stopCalls' = stopCalls + 1
    /\ Stop
    /\ UNCHANGED mainVars

NextStop ==
    \/ WatchCancelled
    \/ WatchTick
    \/ \E timeout \in 1..MaxTimeout : StartWait(timeout) /\ UNCHANGED callerVars
    \/ WaitCancelled
    \/ WaitTick
    \/ CountedStop
    \/ Interrupt
    \/ AdvanceClock

SpecStop == InitStop /\ [][NextStop]_vars

\* ------------------------------------------------------------ properties
\* A status document that has an entry {type: "Ready", status: "True"}.
ContainsReadyTrue(r) ==
    /\ ~r.err
    /\ r.statusKind = "map"
    /\ r.condKind = "slice"
    /\ \E i \in DOMAIN r.conditions :
          /\ r.conditions[i].isMap
          /\ r.conditions[i].type = "Ready"
          /\ r.conditions[i].status = "True"

ReadyFetched == lastFetch # <<>> /\ ContainsReadyTrue(lastFetch[1])

\* C1: a fetch that returns a document with a Ready/True condition, at any
\* position, ends WaitForReady with success at that tick: it has returned nil,
\* so it fetches no more and returns no Timeout or Cancelled afterwards.
C1_ReadyReturnsAtOnce ==
    ReadyFetched => (waitPc = "done" /\ result = "nil")

\* WaitForReady returned nil on a document whose Ready/True entry is the
\* second one, behind an entry that is no map.
C1_Witness ==
    /\ ReadyFetched
    /\ result = "nil"
    /\ Len(lastFetch[1].conditions) = 2
    /\ ~lastFetch[1].conditions[1].isMap

\* C2: WaitForReady returns success only if the document just fetched had a
\* Ready/True condition, returns Timeout only after the deadline, returns a
\* context error only if the caller's context is cancelled, and once started
\* for a supported kind it does return: so with a context never cancelled and
\* no Ready/True document it ends in Timeout, never in success.
C2_NeverReadyTimesOut ==
    /\ [](result = "nil" => ReadyFetched)
    /\ [](result = "Timeout" => now > deadline)
    /\ [](result \in CtxErrors => parentErr # NoError)
    /\ [](waitPc = "done" /\ kind \in {"kustomization", "helmrelease", "source",
                                       "gitrepository"}
            => result \in {"nil", "Timeout"} \cup CtxErrors)
    /\ (waitPc = "select" ~> waitPc = "done")

\* WaitForReady polled twice without seeing Ready/True and returned Timeout
\* under a live context.
C2_Witness ==
    /\ result = "Timeout"
    /\ parentErr = NoError
    /\ monErr = NoError
    /\ fetches = 2
    /\ ~ReadyFetched

\* C3: a successful event query whose (reason, severity, message) content
\* equals that of the successful query before it emits no notification.
C3_SameContentSilent ==
    samePoll => emitted = <<>>

\* A query repeated a list of three events.
C3_Witness ==
    /\ samePoll
    /\ lastPoll = "ok"
    /\ Len(lastOk[1]) = 3
    /\ watchPc = "select"

\* The events the hash of checkEvents covers: the last (up to) three.
RecentContent(items) ==
    LET c == Content(items)
    IN  IF Len(c) <= 3 THEN c ELSE SubSeq(c, Len(c) - 2, Len(c))

\* Watch received from ticker.C: this step is a checkEvents call.
PollStep == watchTickC /\ ~watchTickC'

\* C4: when a successful query returns a non-empty list right after one that
\* returned a non-empty list whose last (up to) three events differ in
\* content, the second query emits output.
C4_ChangeAlwaysEmits ==
    [][(/\ PollStep
        /\ lastPoll = "ok" /\ lastPoll' = "ok"
        /\ lastOk[1] # <<>> /\ lastOk'[1] # <<>>
        /\ RecentContent(lastOk[1]) # RecentContent(lastOk'[1]))
       => emitted' # <<>>]_vars

\* C5: once WaitForReady is entered, gvr is the one the table gives for the
\* kind; for a kind outside the table it has returned UnsupportedKind at once,
\* without taking any select case and without a status fetch.
C5_KindResolution ==
    waitPc # "idle" =>
        CASE kind = "kustomization" ->
                /\ result # "UnsupportedKind"
                /\ gvr = [Group |-> "kustomize.toolkit.fluxcd.io", Version |-> "v1",
                          Resource |-> "kustomizations"]
          [] kind = "helmrelease" ->
                /\ result # "UnsupportedKind"
                /\ gvr = [Group |-> "helm.toolkit.fluxcd.io", Version |-> "v2beta1",
                          Resource |-> "helmreleases"]
          [] kind \in {"source", "gitrepository"} ->
                /\ result # "UnsupportedKind"
                /\ gvr = [Group |-> "source.toolkit.fluxcd.io", Version |-> "v1",
                          Resource |-> "gitrepositories"]
          [] OTHER ->
                /\ waitPc = "done"
                /\ result = "UnsupportedKind"
                /\ waitBranch = "none"
                /\ fetches = 0
                /\ lastFetch = <<>>

\* WaitForReady was called for an unknown kind with the context already
\* cancelled, and returned UnsupportedKind.
C5_Witness ==
    /\ kind = "Kustomization"
    /\ result = "UnsupportedKind"
    /\ parentErr # NoError

\* C6: when WaitForReady takes the cancellation case it returns the context's
\* error, which is not the Timeout error, also when the deadline has passed;
\* it makes no status fetch afterwards and its result stays.
C6_CancelledNotTimeout ==
    /\ [](waitBranch = "ctx" =>
            /\ waitPc = "done"
            /\ result \in CtxErrors
            /\ result = parentErr
            /\ result # "Timeout")
    /\ [][waitBranch = "ctx" => (fetches' = fetches /\ result' = result)]_vars

\* WaitForReady took the cancellation case after its deadline had passed.
C6_Witness ==
    /\ waitBranch = "ctx"
    /\ now > deadline
    /\ result \in CtxErrors

\* C7: with the root context cancelled, Watch and WaitForReady each start at
\* most one more poll and return before the clock advances: both end within
\* one tick interval.
C7_RootCancelStopsBoth ==
    /\ [](lateWatchPolls <= 1 /\ lateWaitPolls <= 1)
    /\ [][(parentErr # NoError /\ (watchPc = "select" \/ waitPc = "select"))
            => now' = now]_vars
    /\ (parentErr # NoError ~> (watchPc = "done" /\ waitPc # "select"))

\* The root context was cancelled with both tickers' ticks pending: each loop
\* took one more poll and then returned.
C7_Witness ==
    /\ parentErr # NoError
    /\ watchPc = "done"
    /\ waitPc = "done"
    /\ result \in CtxErrors
    /\ lateWatchPolls = 1
    /\ lateWaitPolls = 1

\* C8: a WaitForReady that was blocked when Stop() was called, the parent
\* context being live, returns the Cancelled outcome.
C8_StopAbortsWait ==
    (stopMidWait /\ waitPc = "done") => result \in CtxErrors

\* The event a notification of the latest checkEvents call was made from: the
\* i-th notification shows the i-th event from the end of the list.
SourceEvent(i) == lastOk[1][Len(lastOk[1]) - i + 1]

\* C9: every notification carries isWarning = TRUE exactly if its event has
\* severity Warning or reason HealthCheckFailed or DependencyNotReady.
C9_WarningFlag ==
    \A i \in DOMAIN emitted :
        emitted[i].isWarning <=>
            \/ SourceEvent(i).type = "Warning"
            \/ SourceEvent(i).reason \in {"HealthCheckFailed", "DependencyNotReady"}

\* A HealthCheckFailed event of severity Normal was shown as a warning, next
\* to a Progressing event of severity Normal shown as no warning.
C9_Witness ==
    /\ Len(emitted) = 2
    /\ emitted[1].reason = "HealthCheckFailed"
    /\ SourceEvent(1).type = "Normal"
    /\ emitted[1].isWarning
    /\ emitted[2].reason = "Progressing"
    /\ ~emitted[2].isWarning

\* C10: a checkEvents call whose query fails or returns no event emits
\* nothing, leaves the stored hash as it was and leaves Watch in its loop with
\* its ticker running.
C10_FailedPollIsNoOp ==
    [][(PollStep /\ (lastPoll' = "err" \/ lastOk' = << <<>> >>))
       => (/\ emitted' = <<>>
           /\ lastHash' = lastHash
           /\ watchPc' = "select"
           /\ watchTickAt' = watchTickAt)]_vars

\* A query failed after a hash had been stored, and Watch is still running
\* with the hash kept.
C10_Witness ==
    /\ lastPoll = "err"
    /\ lastOk # <<>>
    /\ lastHash # ""
    /\ emitted = <<>>
    /\ watchPc = "select"
    /\ monErr = NoError

\* A fetch result that is "not ready yet": a failed fetch, a document with no
\* status key, a status with no conditions key, or conditions with an entry
\* that is no map and no Ready/True entry.
NotReadyYet(r) ==
    \/ r.err
    \/ r.statusKind = "absent"
    \/ r.statusKind = "map" /\ r.condKind = "absent"
    \/ /\ r.statusKind = "map" /\ r.condKind = "slice"
       /\ \E i \in DOMAIN r.conditions : ~r.conditions[i].isMap
       /\ ~ContainsReadyTrue(r)

\* WaitForReady made a status fetch in this step.
FetchStep == fetches' = fetches + 1

\* C11: a status fetch that fails, or returns a document without status,
\* without conditions or with a non-map condition entry, does not make
\* WaitForReady return: it stays in its loop with its ticker running; and
\* WaitForReady returns nothing but nil, Timeout, a context error or
\* UnsupportedKind.
C11_TransientIsNotReady ==
    /\ [][(FetchStep /\ NotReadyYet(lastFetch'[1]))
            => (/\ waitPc' = "select"
                /\ result' = "none"
                /\ waitTickAt' = waitTickAt)]_vars
    /\ [](result \in {"none", "nil", "Timeout", "UnsupportedKind"} \cup CtxErrors)
    /\ [](waitPc = "done" <=> result # "none")

\* WaitForReady is still polling after two fetches, the latest of which failed.
C11_Witness ==
    /\ waitPc = "select"
    /\ fetches = 2
    /\ lastFetch[1].err
    /\ monErr = NoError
    /\ result = "none"

\* This step is a call of Stop().
StopStep == stopCalls' = stopCalls + 1

\* C12: Stop() is idempotent: a call of Stop() after the first, in any
\* interleaving with Watch and WaitForReady, changes nothing of the session;
\* after any call the scope of the session is cancelled; no call changes the
\* fingerprint; and Stop() can always be called.
C12_StopIdempotent ==
    /\ [][(StopStep /\ stopCalls >= 1)
            => UNCHANGED <<now, kind, ctxVars, watchVars, eventVars, waitVars>>]_vars
    /\ [][StopStep => (monErr' # NoError /\ lastHash' = lastHash)]_vars
    /\ [](stopCalls >= 1 => monErr # NoError)
    /\ [](ENABLED Stop)

\* Stop() was called twice while Watch and WaitForReady were running.
C12_Witness ==
    /\ stopCalls = 2
    /\ monErr = "Canceled"
    /\ waitPc = "select"
    /\ watchPc = "select"

\* C13: the step in which WaitForReady returns Timeout changes nothing of the
\* session outside WaitForReady: not its scope, not the Watch loop, not the
\* fingerprint; after it Watch is still in its loop unless the scope was
\* cancelled, which only Stop() or the parent do.
C13_TimeoutLeavesSession ==
    /\ [][(result = "none" /\ result' = "Timeout")
            => UNCHANGED <<ctxVars, watchVars, eventVars>>]_vars
    /\ []((result = "Timeout" /\ monErr = NoError) => watchPc = "select")
    /\ [](watchPc = "done" => monErr # NoError)

\* WaitForReady returned Timeout at its first tick, which is before the first
\* tick of Watch; Watch has polled since and is still in its loop.
C13_Witness ==
    /\ result = "Timeout"
    /\ deadline < WaitPeriod
    /\ WaitPeriod < WatchPeriod
    /\ lastPoll = "ok"
    /\ watchPc = "select"
    /\ monErr = NoError

\* WaitForReady received a tick of its ticker in this step.
TickStep == waitPc = "select" /\ waitTickC /\ ~waitTickC'

\* C18: WaitForReady looks at the deadline before it fetches: a tick received
\* after the deadline makes it return Timeout with no fetch, and no fetch is
\* made at a time after the deadline.
C18_DeadlineBeforeFetch ==
    /\ [][(TickStep /\ now > deadline)
            => (/\ result' = "Timeout"
                /\ waitPc' = "done"
                /\ fetches' = fetches
                /\ lastFetch' = lastFetch)]_vars
    /\ [][FetchStep => now <= deadline]_vars

\* WaitForReady returned Timeout at a tick, the cluster being reachable, after
\* one fetch before the deadline.
C18_Witness ==
    /\ result = "Timeout"
    /\ waitBranch = "tick"
    /\ now > deadline
    /\ fetches = 1
    /\ monErr = NoError
    /\ parentErr = NoError

Min(a, b) == IF a <= b THEN a ELSE b

\* C15: a checkEvents call emits at most two notifications; a call that
\* changes the stored hash, its query having returned n >= 1 events, emits
\* min(2, n) of them; and the notifications are the last events of the list,
\* the newest first.
C15_AtMostTwoNewestFirst ==
    /\ [](Len(emitted) <= 2)
    /\ [](emitted # <<>>
            => /\ lastPoll = "ok"
               /\ Len(emitted) = Min(2, Len(lastOk[1]))
               /\ \A i \in DOMAIN emitted :
                      /\ emitted[i].reason = SourceEvent(i).reason
                      /\ emitted[i].message = SourceEvent(i).message)
    /\ [][(PollStep /\ lastHash' # lastHash)
            => (/\ Len(lastOk'[1]) >= 1
                /\ Len(emitted') = Min(2, Len(lastOk'[1])))]_vars

\* Of three events the last was shown first and the one before it second;
\* the oldest was not shown.
C15_Witness ==
    /\ lastPoll = "ok"
    /\ Len(lastOk[1]) = 3
    /\ lastOk[1][1].reason = "Progressing"
    /\ lastOk[1][2].reason = "DependencyNotReady"
    /\ lastOk[1][3].reason = "HealthCheckFailed"
    /\ Len(emitted) = 2
    /\ emitted[1].reason = "HealthCheckFailed"
    /\ emitted[2].reason = "DependencyNotReady"

\* C16: the stored hash is empty or the hash of the latest successful
\* non-empty query; a query emits exactly if it succeeds, is non-empty and its
\* hash differs from the stored one; so the first successful non-empty query
\* emits, and of the queries returning WindowA, WindowB, WindowA each emits.
C16_StoredIsLatest ==
    /\ [](lastHash = seenHash)
    /\ [][PollStep
            => (emitted' # <<>>
                  <=> (/\ lastPoll' = "ok"
                       /\ lastOk'[1] # <<>>
                       /\ HashOf(lastOk'[1]) # lastHash))]_vars
    /\ [][(PollStep /\ seenHash = "" /\ seenHash' # "") => emitted' # <<>>]_vars
    /\ [](revertStage >= 0 => revertEmitted = revertStage)

\* The queries returned WindowA, WindowB and WindowA again, and all three
\* emitted.
C16_Witness ==
    /\ revertStage = 3
    /\ revertEmitted = 3
    /\ lastOk = <<WindowA>>
    /\ lastHash = HashOf(WindowA)
    /\ Len(emitted) = 1

\* Every caller of checkEvents has returned.
AllDone == \A c \in Callers : callPc[c] = "done"

\* The callers that wrote the stored hash, and those that printed.
Storers == {c \in Callers : callStored[c]}
Emitters == {c \in Callers : callShown[c] # <<>>}

\* C17: a caller holds the lock only between its Lock() and its Unlock(): not
\* during its query, not while it prints, not after it returned; callers that
\* all fetched one non-empty list against an empty stored hash end with one
\* of them having stored and printed and the others silent; and as long as a
\* caller has not returned some caller can take a step, the holder of the
\* lock first of all.
C17_LockDiscipline ==
    /\ [](\A c \in Callers :
            callPc[c] \in {"start", "lock", "show", "done"} => mu # c)
    /\ [](\A c \in Callers :
            callPc[c] \in {"locked", "unlockThen", "unlockElse"} => mu = c)
    /\ []((/\ AllDone
           /\ callItems[1] # <<>>
           /\ \A c \in Callers : callItems[c] = callItems[1])
            => (/\ Cardinality(Storers) = 1
                /\ Emitters = Storers
                /\ lastHash = callHash[1]))
    /\ [](Emitters \subseteq Storers)
    /\ [](~AllDone => ENABLED NextLock)
    /\ [](mu # 0 => ENABLED (CallCompare(mu) \/ CallUnlock(mu)))

\* Two callers fetched the same list: the first stored and printed, the
\* second found the hash stored, printed nothing, and released the lock.
C17_Witness ==
    /\ AllDone
    /\ mu = 0
    /\ callItems[1] = WindowB
    /\ callItems[2] = WindowB
    /\ callStored[1]
    /\ Len(callShown[1]) = 2
    /\ ~callStored[2]
    /\ callShown[2] = <<>>

\* C14: when NewMonitor fails main holds no Monitor, no Watch loop is started
\* and no WaitForReady is ever called; the warning is printed once; main goes
\* on to run the flux command, and the program ends with the status the
\* command's outcome gives: that of the process, or 1 if it could not be run.
C14_SetupFailureDegrades ==
    /\ [](warnings <= 1)
    /\ [](warnings = 1
            => /\ eventMonitor = "nil"
               /\ watchPc = "idle"
               /\ waitPc = "idle")
    /\ [][warnings' # warnings => mainPc' = "command"]_vars
    /\ []((warnings = 1 /\ mainPc = "exited")
            => /\ cmd # "none"
               /\ exitCode = IF cmd = "notrun" THEN 1 ELSE ExitStatus(cmdCode))

\* NewMonitor failed, the flux process ran and exited with 0, and the program
\* ended with 0 although -wait was set.
C14_Witness ==
    /\ warnings = 1
    /\ mainPc = "exited"
    /\ cmd = "exited"
    /\ cmdCode = 0
    /\ exitCode = 0
    /\ waitFlag
    /\ now > 0

\* C19: when main has a Monitor its Watch loop is started before the flux
\* process and is in its loop as long as the process runs under a live root
\* context (a cancelled root context ends both); WaitForReady is called only
\* after the process exited with 0; if the process exits with another code or
\* cannot be run WaitForReady is never called and the program ends with a
\* status other than 0.
C19_LoopThenProcessThenWait ==
    /\ []((cmd # "none" /\ eventMonitor = "set") => watchPc # "idle")
    /\ []((cmd = "running" /\ eventMonitor = "set" /\ parentErr = NoError)
            => watchPc = "select")
    /\ [](watchPc # "idle" => eventMonitor = "set")
    /\ [](waitPc # "idle" => RunSucceeded)
    /\ [](RunFailed
            => /\ waitPc = "idle"
               /\ mainPc \in {"run", "exited"}
               /\ mainPc = "exited" => exitCode \in 1..255)
    /\ []((mainPc = "run" /\ RunFailed) => ENABLED MainCmdFailed)

\* The flux process ran past a tick of Watch, which polled, and exited with
\* 2: the program ended with 2 and WaitForReady was not called, -wait being
\* set.
C19_Witness ==
    /\ mainPc = "exited"
    /\ eventMonitor = "set"
    /\ waitFlag
    /\ cmd = "exited"
    /\ cmdCode = 2
    /\ exitCode = 2
    /\ waitPc = "idle"
    /\ lastPoll = "ok"
    /\ now >= WatchPeriod

\* C20: main gives the root context and WaitForReady the same timeout, the
\* root context first: the root deadline is never later than the deadline of
\* WaitForReady, so when that has passed the root context is cancelled,
\* WaitForReady does not return Timeout under a live root context, and it is
\* in its loop no later than one tick after the root deadline.  (Put the
\* other way round: as long as the root context is live the deadline of a
\* WaitForReady in progress has not passed.)
C20_RootDeadlineFirst ==
    /\ [][(waitPc = "idle" /\ waitPc' # "idle")
            => (/\ deadline' = now + timeoutFlag
                /\ parentDeadline <= now + timeoutFlag)]_vars
    /\ [](waitPc # "idle" => parentDeadline <= deadline)
    /\ []((waitPc # "idle" /\ now > deadline) => parentErr # NoError)
    /\ [](result = "Timeout" => parentErr # NoError)
    /\ [](waitPc = "select" => now <= parentDeadline + WaitPeriod)

\* WaitForReady began a second after the root context, fetched a document
\* that was not ready and returned at the root deadline, before its own.
C20_Witness ==
    /\ mainPc = "wait"
    /\ waitPc = "done"
    /\ result = "DeadlineExceeded"
    /\ fetches >= 1
    /\ ~ReadyFetched
    /\ now = parentDeadline
    /\ parentDeadline < deadline

====
